---- MODULE Spec2Model ----
(***************************************************************************)
(* Model of zw_to_anki's dictionary (src/dict.rs), pinyin renderer         *)
(* (src/pinyin.rs) and hanzi colouring (src/anki.rs).                      *)
(*                                                                         *)
(* Strings are sequences of characters.  A character is written as an      *)
(* ASCII name: the hanzi 共 同 话 题 are "gong" "tong" "hua" "ti", the       *)
(* interpunct '·' is "middot", 'ü'/'Ü' are "v"/"V", and a vowel carrying   *)
(* the mark of tone t is the vowel followed by t ("a1" is 'ā', "V4" is     *)
(* 'Ǜ').  Utf8Len gives the number of bytes Rust's str uses for each.      *)
(***************************************************************************)
EXTENDS Integers, Sequences, FiniteSets, TLC

VARIABLES pc, src, dict, word, chunkings, result, fields, line, parsed, text, tone, out

vars == <<pc, src, dict, word, chunkings, result, fields, line, parsed, text, tone, out>>

(***************************************************************************)
(* Bounds                                                                  *)
(***************************************************************************)
MaxTokenLen == 4
MaxKeys == 4
MaxSyllables == 2
MaxSegments == 2
MaxLines == 3
MaxLookupLen == 2
MaxTextLen == 3

(***************************************************************************)
(* Characters                                                              *)
(***************************************************************************)
Hanzi == <<"gong", "tong", "hua", "ti">>

HanziSet == {Hanzi[i] : i \in 1..Len(Hanzi)}

RECURSIVE Reverse(_)
Reverse(s) == IF s = <<>> THEN <<>> ELSE Append(Reverse(Tail(s)), Head(s))

RECURSIVE Concat(_)
Concat(ss) == IF ss = <<>> THEN <<>> ELSE Head(ss) \o Concat(Tail(ss))

(***************************************************************************)
(* dict.rs: Word, CEDict                                                   *)
(***************************************************************************)
NoWord == [simplified |-> <<>>, pinyins |-> <<>>]

NoResult == [kind |-> "none", words |-> <<>>, token |-> <<>>]

Returned(ws) == [kind |-> "ok", words |-> ws, token |-> <<>>]

Panicked(w) == [kind |-> "panic", words |-> <<>>, token |-> w]

(***************************************************************************)
(* dict.rs: iterate_all_subdivisions pushes, through f, every subdivision  *)
(* of rest (prefixed by head) in the order of its for loop; the operator   *)
(* returns the sequence of the values pushed.                              *)
(***************************************************************************)
RECURSIVE iterate_all_subdivisions(_, _)
RECURSIVE SubdivisionLoop(_, _, _)
SubdivisionLoop(head, rest, i) ==
    IF i > Len(rest) THEN <<>>
    ELSE iterate_all_subdivisions(Append(head, SubSeq(rest, 1, i)),
                                  SubSeq(rest, i + 1, Len(rest)))
         \o SubdivisionLoop(head, rest, i + 1)

iterate_all_subdivisions(head, rest) ==
    IF rest = <<>> THEN <<head>> ELSE SubdivisionLoop(head, rest, 1)

Skip1(s) == IF s = <<>> THEN <<>> ELSE Tail(s)

generate_all_chunkings_norev(w) == Skip1(iterate_all_subdivisions(<<>>, w))

generate_all_chunkings_noskip(w) == Reverse(iterate_all_subdivisions(<<>>, w))

\* Chunkings that also try the word without its last character.
generate_all_chunkings_short(w) ==
    Skip1(Reverse(iterate_all_subdivisions(<<>>, w)))
        \o (IF w = <<>> THEN <<>>
            ELSE Reverse(iterate_all_subdivisions(<<>>, SubSeq(w, 1, Len(w) - 1))))

generate_all_chunkings(w) == Skip1(Reverse(iterate_all_subdivisions(<<>>, w)))

(***************************************************************************)
(* dict.rs: CEDict::get                                                    *)
(***************************************************************************)
\* chunking.into_iter().map(|chunk| self.dict.get(&chunk)).collect::<Option<Vec<_>>>()
CollectAny(d, chunking) ==
    IF \E k \in 1..Len(chunking) : chunking[k] \in DOMAIN d
    THEN [some |-> TRUE,
          words |-> [k \in 1..Len(chunking) |->
                        IF chunking[k] \in DOMAIN d THEN d[chunking[k]] ELSE NoWord]]
    ELSE [some |-> FALSE, words |-> <<>>]

Collect(d, chunking) ==
    IF \A k \in 1..Len(chunking) : chunking[k] \in DOMAIN d
    THEN [some |-> TRUE, words |-> [k \in 1..Len(chunking) |-> d[chunking[k]]]]
    ELSE [some |-> FALSE, words |-> <<>>]

RECURSIVE GetLoopEmpty(_, _, _, _)
GetLoopEmpty(d, w, cs, i) ==
    IF i > Len(cs) THEN Returned(<<>>)
    ELSE LET r == Collect(d, cs[i])
         IN  IF r.some THEN Returned(r.words) ELSE GetLoopEmpty(d, w, cs, i + 1)

RECURSIVE GetLoop(_, _, _, _)
GetLoop(d, w, cs, i) ==
    IF i > Len(cs) THEN Panicked(w)
    ELSE LET r == Collect(d, cs[i])
         IN  IF r.some THEN Returned(r.words) ELSE GetLoop(d, w, cs, i + 1)

get_nodirect(d, w) == GetLoop(d, w, generate_all_chunkings(w), 1)

get(d, w) ==
    IF w \in DOMAIN d THEN Returned(<<d[w]>>)
    ELSE GetLoop(d, w, generate_all_chunkings(w), 1)

(***************************************************************************)
(* Rust str primitives, on sequences of characters.                        *)
(***************************************************************************)
\* The number of bytes of a character in UTF-8: hanzi take three, the
\* interpunct, 'ü', 'Ü' and the tone-marked vowels two, ASCII one.
ThreeByteChars == {"gong", "tong", "hua", "ti", "huaT", "tiT"}

TwoByteChars ==
    {"middot", "v", "V"} \cup
    {v \o t : v \in {"a", "e", "i", "o", "u", "v", "A", "E", "I", "O", "U", "V"},
              t \in {"1", "2", "3", "4"}}

Utf8Len(c) ==
    IF c \in ThreeByteChars THEN 3
    ELSE IF c \in TwoByteChars THEN 2
    ELSE 1

RECURSIVE ByteLen(_)
ByteLen(s) == IF s = <<>> THEN 0 ELSE Utf8Len(Head(s)) + ByteLen(Tail(s))

\* The positions of character c in s.
Positions(s, c) == {i \in 1..Len(s) : s[i] = c}

MinOf(S) == CHOOSE x \in S : \A y \in S : x <= y

\* str::split(char)
RECURSIVE Split(_, _)
Split(s, sep) ==
    IF Positions(s, sep) = {} THEN <<s>>
    ELSE LET i == MinOf(Positions(s, sep))
         IN  <<SubSeq(s, 1, i - 1)>> \o Split(SubSeq(s, i + 1, Len(s)), sep)

\* str::split_once(char)
SplitOnce(s, sep) ==
    IF Positions(s, sep) = {} THEN [some |-> FALSE, before |-> <<>>, after |-> <<>>]
    ELSE LET i == MinOf(Positions(s, sep))
         IN  [some |-> TRUE, before |-> SubSeq(s, 1, i - 1), after |-> SubSeq(s, i + 1, Len(s))]

\* str::split_whitespace: the maximal runs of non-whitespace characters.
RECURSIVE SplitWhitespaceFrom(_, _)
SplitWhitespaceFrom(s, cur) ==
    IF s = <<>> THEN (IF cur = <<>> THEN <<>> ELSE <<cur>>)
    ELSE IF Head(s) = " "
         THEN (IF cur = <<>> THEN <<>> ELSE <<cur>>) \o SplitWhitespaceFrom(Tail(s), <<>>)
         ELSE SplitWhitespaceFrom(Tail(s), Append(cur, Head(s)))

SplitWhitespace(s) == SplitWhitespaceFrom(s, <<>>)

\* str::trim_end_matches(&str): strips the pattern from the end, repeatedly.
RECURSIVE TrimEndMatches(_, _)
TrimEndMatches(s, pat) ==
    IF Len(s) >= Len(pat) /\ SubSeq(s, Len(s) - Len(pat) + 1, Len(s)) = pat
    THEN TrimEndMatches(SubSeq(s, 1, Len(s) - Len(pat)), pat)
    ELSE s

\* str::replace(&str, &str): left to right, matches not overlapping.
RECURSIVE Replace(_, _, _)
Replace(s, from, to) ==
    IF Len(s) < Len(from) THEN s
    ELSE IF SubSeq(s, 1, Len(from)) = from
         THEN to \o Replace(SubSeq(s, Len(from) + 1, Len(s)), from, to)
         ELSE <<Head(s)>> \o Replace(Tail(s), from, to)

(***************************************************************************)
(* dict.rs: Tone, PinYinSyllable.  A tone is 1..5; 0 stands for None.      *)
(***************************************************************************)
Digits == {"0", "1", "2", "3", "4", "5", "6", "7", "8", "9"}

DigitValue(c) ==
    CASE c = "0" -> 0 [] c = "1" -> 1 [] c = "2" -> 2 [] c = "3" -> 3 [] c = "4" -> 4
      [] c = "5" -> 5 [] c = "6" -> 6 [] c = "7" -> 7 [] c = "8" -> 8 [] OTHER -> 9

Syllable(t, n) == [kind |-> "ok", text |-> t, tone |-> n]

SyllablePanic == [kind |-> "panic", text |-> <<>>, tone |-> 0]

\* A parser in which a digit outside 1..5 gives no tone instead of a panic.
PinYinSyllable_from_lenient(value) ==
    IF value = <<"middot">> THEN Syllable(value, 0)
    ELSE IF value = <<>> \/ Utf8Len(value[Len(value)]) # 1 THEN SyllablePanic
    ELSE LET t == SubSeq(value, 1, Len(value) - 1)
             tone_str == value[Len(value)]
         IN  Syllable(Replace(t, <<"u", ":">>, <<"v">>),
                      IF tone_str \in {"1", "2", "3", "4", "5"}
                      THEN DigitValue(tone_str) ELSE 0)

\* impl From<&str> for PinYinSyllable.  split_at(value.len() - 1) takes the last
\* byte: it panics on the empty string and when the last character is longer
\* than one byte.  tone_str.parse::<u8>() is Ok for a digit, and then Tone::from
\* panics outside 1..5; any other character gives no tone.
PinYinSyllable_from(value) ==
    IF value = <<"middot">> THEN Syllable(value, 0)
    ELSE IF value = <<>> \/ Utf8Len(value[Len(value)]) # 1 THEN SyllablePanic
    ELSE LET t == SubSeq(value, 1, Len(value) - 1)
             tone_str == value[Len(value)]
         IN  IF tone_str \in Digits /\ DigitValue(tone_str) \notin 1..5 THEN SyllablePanic
             ELSE Syllable(Replace(t, <<"u", ":">>, <<"v">>),
                           IF tone_str \in Digits THEN DigitValue(tone_str) ELSE 0)

(***************************************************************************)
(* dict.rs: CEDict::parse_line                                             *)
(***************************************************************************)
NotParsed == [kind |-> "none", word |-> NoWord]

Parsed(w) == [kind |-> "ok", word |-> w]

ParsePanic == [kind |-> "panic", word |-> NoWord]

\* A syllable as stored in a PinYin (text and tone).
Stored(syl) == [text |-> syl.text, tone |-> syl.tone]

Nth0(tokens) ==
    IF Len(tokens) >= 1 THEN [some |-> TRUE, value |-> tokens[1]]
    ELSE [some |-> FALSE, value |-> <<>>]

\* words.split_whitespace().nth(1)
Nth1(tokens) ==
    IF Len(tokens) >= 2 THEN [some |-> TRUE, value |-> tokens[2]]
    ELSE [some |-> FALSE, value |-> <<>>]

\* defs.filter(|d| !d.is_empty()).map(String::from).collect::<BTreeSet<_>>()
Glosses(defs) == {defs[i] : i \in 1..Len(defs)} \ {<<>>}

parse_line(l) ==
    LET defs == Split(l, "/")
        words_and_pinyin == Head(defs)
        halves == SplitOnce(words_and_pinyin, "[")
        simplified == Nth1(SplitWhitespace(halves.before))
        pinyin == TrimEndMatches(halves.after, <<"]", " ">>)
        tokens == SplitWhitespace(pinyin)
        syllables == [i \in 1..Len(tokens) |-> PinYinSyllable_from(tokens[i])]
    IN  IF ~halves.some THEN ParsePanic
        ELSE IF ~simplified.some THEN ParsePanic
        ELSE IF \E i \in 1..Len(tokens) : syllables[i].kind = "panic" THEN ParsePanic
        ELSE Parsed([simplified |-> simplified.value,
                     pinyins |-> [py \in {[i \in 1..Len(tokens) |-> Stored(syllables[i])]}
                                    |-> Glosses(Tail(defs))]])

(***************************************************************************)
(* dict.rs: CEDict::parse                                                  *)
(***************************************************************************)
\* existing_defs.extend(defs.clone()) replaced by an overwrite.
MergeDefsOverwrite(existing_defs, defs) == defs

\* .and_modify(|existing_defs| existing_defs.extend(defs.clone()))
MergeDefs(existing_defs, defs) == existing_defs \cup defs

\* The closure of the outer and_modify: every reading of the new word goes into
\* the existing word, merged when the reading is there already.
MergeWord(existing_word, w) ==
    [existing_word EXCEPT !.pinyins =
        [py \in DOMAIN existing_word.pinyins \cup DOMAIN w.pinyins |->
            IF py \notin DOMAIN w.pinyins THEN existing_word.pinyins[py]
            ELSE IF py \in DOMAIN existing_word.pinyins
                 THEN MergeDefs(existing_word.pinyins[py], w.pinyins[py])
                 ELSE w.pinyins[py]]]

\* ret.entry(word.simplified.clone()).and_modify(..).or_insert(word)
InsertWord(ret, w) ==
    [k \in DOMAIN ret \cup {w.simplified} |->
        IF k # w.simplified THEN ret[k]
        ELSE IF k \in DOMAIN ret THEN MergeWord(ret[k], w)
        ELSE w]

StartsWith(l, c) == l # <<>> /\ Head(l) = c

RECURSIVE ParseLoop(_, _)
ParseLoop(ret, lines) ==
    IF lines = <<>> THEN [kind |-> "ok", dict |-> ret]
    ELSE IF StartsWith(Head(lines), "#") THEN ParseLoop(ret, Tail(lines))
    ELSE LET r == parse_line(Head(lines))
         IN  IF r.kind = "panic" THEN [kind |-> "panic", dict |-> <<>>]
             ELSE ParseLoop(InsertWord(ret, r.word), Tail(lines))

parse(lines) == ParseLoop(<<>>, lines)

NoFields == [trad |-> <<>>, simp |-> <<>>, syls |-> <<>>, segs |-> <<>>]

NotRendered == [kind |-> "none", text |-> <<>>]

(***************************************************************************)
(* Tokens and stores                                                       *)
(***************************************************************************)
SeqsUpTo(S, n) == UNION {[1..k -> S] : k \in 0..n}

AllTokens == SeqsUpTo(HanziSet, MaxTokenLen)

HanziIndex(c) == CHOOSE i \in 1..Len(Hanzi) : Hanzi[i] = c

\* get treats characters only by equality, so a token is taken up to a renaming
\* of its characters: each new character is the next unused hanzi.
IsCanonical(t) ==
    \A i \in 1..Len(t) :
        \/ HanziIndex(t[i]) = 1
        \/ \E j \in 1..(i - 1) : HanziIndex(t[j]) >= HanziIndex(t[i]) - 1

Tokens == {t \in AllTokens : IsCanonical(t)}

Substrings(w) == {SubSeq(w, i, j) : i \in 1..Len(w), j \in 1..Len(w)} \ {<<>>}

KeySets(w) == {ks \in SUBSET Substrings(w) : Cardinality(ks) <= MaxKeys}

\* The readings of the four hanzi (gong4 tong2 hua4 ti2), one syllable each.
HanziSyllable(c) ==
    CASE c = "gong" -> [text |-> <<"g", "o", "n", "g">>, tone |-> 4]
      [] c = "tong" -> [text |-> <<"t", "o", "n", "g">>, tone |-> 2]
      [] c = "hua" -> [text |-> <<"h", "u", "a">>, tone |-> 4]
      [] OTHER -> [text |-> <<"t", "i">>, tone |-> 2]

\* The entry parse stores under key k: its written form is k.
WordOf(k) ==
    [simplified |-> k,
     pinyins |-> [py \in {[i \in 1..Len(k) |-> HanziSyllable(k[i])]} |-> {<<"g">>}]]

StoreOf(ks) == [k \in ks |-> WordOf(k)]

\* A get that remembers a resolved token under its own key.
StoreAfterGetCached(d, w) ==
    IF w \notin DOMAIN d /\ get(d, w).kind = "ok"
    THEN [k \in DOMAIN d \cup {w} |-> IF k = w THEN WordOf(w) ELSE d[k]]
    ELSE d

\* get takes &self: the store a call leaves behind is the store it was given.
StoreAfterGet(d, w) == d

(***************************************************************************)
(* Spec: lookups in a constructed store.                                   *)
(***************************************************************************)
IdleGet == word = <<>> /\ chunkings = <<>> /\ result = NoResult

IdleParse == src = <<>> /\ fields = NoFields /\ line = <<>> /\ parsed = NotParsed

IdlePinyin == text = <<>> /\ tone = 0 /\ out = NotRendered

Init ==
    /\ pc = "ready"
    /\ \E w \in Tokens : \E ks \in KeySets(w) : word = w /\ dict = StoreOf(ks)
    /\ chunkings = <<>> /\ result = NoResult
    /\ IdleParse /\ IdlePinyin

Get ==
    /\ pc = "ready"
    /\ result' = get(dict, word)
    /\ pc' = "done"
    /\ dict' = StoreAfterGet(dict, word)
    /\ UNCHANGED <<src, word, chunkings, fields, line, parsed, text, tone, out>>

Next == Get

Spec == Init /\ [][Next]_vars

(***************************************************************************)
(* SpecChunk: generate_all_chunkings applied to every bounded token.       *)
(***************************************************************************)
InitChunk ==
    /\ pc = "chunk"
    /\ word \in AllTokens
    /\ dict = <<>> /\ chunkings = <<>> /\ result = NoResult
    /\ IdleParse /\ IdlePinyin

Chunk ==
    /\ pc = "chunk"
    /\ chunkings' = generate_all_chunkings(word)
    /\ pc' = "chunked"
    /\ UNCHANGED <<src, dict, word, result, fields, line, parsed, text, tone, out>>

NextChunk == Chunk

SpecChunk == InitChunk /\ [][NextChunk]_vars

(***************************************************************************)
(* Dictionary lines as written:                                            *)
(*   <traditional> <simplified> [<syllables>] /<gloss>/<gloss>/.../        *)
(***************************************************************************)
RECURSIVE JoinWith(_, _)
JoinWith(ss, sep) ==
    IF ss = <<>> THEN <<>>
    ELSE IF Len(ss) = 1 THEN Head(ss)
    ELSE Head(ss) \o sep \o JoinWith(Tail(ss), sep)

RenderLine(f) ==
    f.trad \o <<" ">> \o f.simp \o <<" ", "[">> \o JoinWith(f.syls, <<" ">>)
        \o <<"]", " ", "/">> \o Concat([i \in 1..Len(f.segs) |-> f.segs[i] \o <<"/">>])

\* Syllable tokens as written and the syllable each one denotes.
SylTable ==
    {[tok |-> <<"y", "i", "1">>, syl |-> [text |-> <<"y", "i">>, tone |-> 1]],
     [tok |-> <<"l", "u", ":", "4">>, syl |-> [text |-> <<"l", "v">>, tone |-> 4]],
     [tok |-> <<"Y", "a", "4">>, syl |-> [text |-> <<"Y", "a">>, tone |-> 4]],
     [tok |-> <<"e", "r", "5">>, syl |-> [text |-> <<"e", "r">>, tone |-> 5]],
     [tok |-> <<"middot">>, syl |-> [text |-> <<"middot">>, tone |-> 0]],
     [tok |-> <<"g", "o", "n", "g", "4">>, syl |-> [text |-> <<"g", "o", "n", "g">>, tone |-> 4]],
     [tok |-> <<"g", "o", "n", "g", "1">>, syl |-> [text |-> <<"g", "o", "n", "g">>, tone |-> 1]],
     [tok |-> <<"t", "o", "n", "g", "2">>, syl |-> [text |-> <<"t", "o", "n", "g">>, tone |-> 2]]}

Denoted(tok) == (CHOOSE e \in SylTable : e.tok = tok).syl

ReadingOf(syls) == [i \in 1..Len(syls) |-> Denoted(syls[i])]

GlossesOf(segs) == {g \in {segs[i] : i \in 1..Len(segs)} : g # <<>>}

LineSyllables ==
    {<<"y", "i", "1">>, <<"l", "u", ":", "4">>, <<"Y", "a", "4">>, <<"e", "r", "5">>, <<"middot">>}

\* Traditional and simplified written forms: 共同/共同, 話題/话题, 話/话.
FormPairs ==
    {[trad |-> <<"gong", "tong">>, simp |-> <<"gong", "tong">>],
     [trad |-> <<"huaT", "tiT">>, simp |-> <<"hua", "ti">>],
     [trad |-> <<"huaT">>, simp |-> <<"hua">>]}

GlossGas == <<"g", "a", "s">>

GlossN2O == <<"N", "2", " ", "O">>

\* A gloss that refers to another entry, brackets included.
GlossSee == <<"s", "e", "e", " ", "hua", "[", "y", "i", "1", "]">>

WellFormedFields ==
    {[trad |-> fp.trad, simp |-> fp.simp, syls |-> sy, segs |-> sg] :
        fp \in FormPairs,
        sy \in SeqsUpTo(LineSyllables, MaxSyllables) \ {<<>>},
        sg \in SeqsUpTo({<<>>, GlossGas, GlossN2O, GlossSee}, MaxSegments)}

\* Lines parse_line cannot parse: no '[', no second written form, a tone digit
\* outside 1..5.
MalformedLines ==
    {<<"gong", " ", "gong", " ", "y", "i", "1", " ", "/", "g", "/">>,
     <<"gong", " ", "[", "y", "i", "1", "]", " ", "/", "g", "/">>,
     <<"gong", " ", "gong", " ", "[", "y", "i", "6", "]", " ", "/", "g", "/">>}

(***************************************************************************)
(* SpecLine: parse_line applied to every bounded line.                     *)
(***************************************************************************)
InitLine ==
    /\ pc = "line"
    /\ \/ \E f \in WellFormedFields : fields = f /\ line = RenderLine(f)
       \/ fields = NoFields /\ line \in MalformedLines
    /\ src = <<>> /\ parsed = NotParsed
    /\ dict = <<>>
    /\ IdleGet /\ IdlePinyin

ParseLine ==
    /\ pc = "line"
    /\ parsed' = parse_line(line)
    /\ pc' = "parsed"
    /\ UNCHANGED <<src, dict, word, chunkings, result, fields, line, text, tone, out>>

NextLine == ParseLine

SpecLine == InitLine /\ [][NextLine]_vars

(***************************************************************************)
(* SpecParse: CEDict::new over a bounded dictionary source, then lookups.  *)
(***************************************************************************)
DictFields ==
    {[trad |-> <<"gong">>, simp |-> <<"gong">>, syls |-> <<<<"g", "o", "n", "g", "4">>>>,
      segs |-> <<GlossGas>>],
     [trad |-> <<"gong">>, simp |-> <<"gong">>, syls |-> <<<<"g", "o", "n", "g", "4">>>>,
      segs |-> <<GlossN2O>>],
     [trad |-> <<"gong">>, simp |-> <<"gong">>, syls |-> <<<<"g", "o", "n", "g", "1">>>>,
      segs |-> <<GlossGas>>],
     [trad |-> <<"tong">>, simp |-> <<"tong">>, syls |-> <<<<"t", "o", "n", "g", "2">>>>,
      segs |-> <<GlossGas, <<>>, GlossN2O>>],
     [trad |-> <<"gong", "tong">>, simp |-> <<"gong", "tong">>,
      syls |-> <<<<"g", "o", "n", "g", "4">>, <<"t", "o", "n", "g", "2">>>>,
      segs |-> <<GlossGas>>]}

\* A commented-out entry.
CommentLine ==
    <<"#", " ">> \o
    RenderLine([trad |-> <<"hua">>, simp |-> <<"hua">>, syls |-> <<<<"y", "i", "1">>>>,
                segs |-> <<GlossGas>>])

DictLines ==
    {RenderLine(f) : f \in DictFields}
        \cup {CommentLine, <<"gong", " ", "[", "y", "i", "1", "]", " ", "/", "g", "/">>}

LookupTokens == SeqsUpTo({"gong", "tong"}, MaxLookupLen)

InitParse ==
    /\ pc = "new"
    /\ src \in SeqsUpTo(DictLines, MaxLines)
    /\ dict = <<>>
    /\ fields = NoFields /\ line = <<>> /\ parsed = NotParsed
    /\ IdleGet /\ IdlePinyin

\* CEDict::new: the whole of parse; a malformed line ends the process.
New ==
    /\ pc = "new"
    /\ LET r == parse(src)
       IN  /\ dict' = r.dict
           /\ pc' = IF r.kind = "ok" THEN "ready" ELSE "panicked"
    /\ UNCHANGED <<src, word, chunkings, result, fields, line, parsed, text, tone, out>>

\* dict.get(word) on the constructed store (main.rs:75).
Lookup ==
    /\ pc = "ready"
    /\ \E w \in LookupTokens :
          /\ word' = w
          /\ result' = get(dict, w)
          /\ dict' = StoreAfterGet(dict, w)
    /\ UNCHANGED <<pc, src, chunkings, fields, line, parsed, text, tone, out>>

NextParse == New \/ Lookup

SpecParse == InitParse /\ [][NextParse]_vars

(***************************************************************************)
(* pinyin.rs                                                               *)
(***************************************************************************)
VOWELS == {"a", "e", "i", "o", "u", "v", "A", "E", "I", "O", "U", "V"}

AS == <<"a1", "a2", "a3", "a4", "a">>

ES == <<"e1", "e2", "e3", "e4", "e">>

IS == <<"i1", "i2", "i3", "i4", "i">>

OS == <<"o1", "o2", "o3", "o4", "o">>

US == <<"u1", "u2", "u3", "u4", "u">>

UUS == <<"v1", "v2", "v3", "v4", "v">>

\* char::to_lowercase / char::is_uppercase / char::to_uppercase on the letters
\* of the model.
UpperLower ==
    {<<"A", "a">>, <<"E", "e">>, <<"I", "i">>, <<"O", "o">>, <<"U", "u">>, <<"V", "v">>,
     <<"X", "x">>, <<"Y", "y">>, <<"N", "n">>,
     <<"A1", "a1">>, <<"A2", "a2">>, <<"A3", "a3">>, <<"A4", "a4">>,
     <<"E1", "e1">>, <<"E2", "e2">>, <<"E3", "e3">>, <<"E4", "e4">>,
     <<"I1", "i1">>, <<"I2", "i2">>, <<"I3", "i3">>, <<"I4", "i4">>,
     <<"O1", "o1">>, <<"O2", "o2">>, <<"O3", "o3">>, <<"O4", "o4">>,
     <<"U1", "u1">>, <<"U2", "u2">>, <<"U3", "u3">>, <<"U4", "u4">>,
     <<"V1", "v1">>, <<"V2", "v2">>, <<"V3", "v3">>, <<"V4", "v4">>}

IsUppercase(c) == \E p \in UpperLower : p[1] = c

ToLowercase(c) == IF IsUppercase(c) THEN (CHOOSE p \in UpperLower : p[1] = c)[2] ELSE c

ToUppercase(c) ==
    IF \E p \in UpperLower : p[2] = c THEN (CHOOSE p \in UpperLower : p[2] = c)[1] ELSE c

Rendered(t) == [kind |-> "ok", text |-> t]

RenderPanic == [kind |-> "panic", text |-> <<>>]

CharPanic == "panic"

\* add_diacritic_to_char: the marked character, or CharPanic ("Invalid pinyin vowel").
add_diacritic_to_char(c, t) ==
    LET l == ToLowercase(c)
        transformed ==
            CASE l = "a" -> AS[t]
              [] l = "e" -> ES[t]
              [] l = "i" -> IS[t]
              [] l = "o" -> OS[t]
              [] l = "u" -> US[t]
              [] l = "v" -> UUS[t]
              [] OTHER -> CharPanic
    IN  IF transformed = CharPanic THEN CharPanic
        ELSE IF IsUppercase(c) THEN ToUppercase(transformed)
        ELSE transformed

\* vowels.contains("ou")
ContainsOu(s) == \E i \in 1..(Len(s) - 1) : s[i] = "o" /\ s[i + 1] = "u"

\* The characters of the group with those at the chosen positions marked.
MarkAt(vowels, t, chosen) ==
    LET marked == [i \in 1..Len(vowels) |->
                      IF i \in chosen THEN add_diacritic_to_char(vowels[i], t) ELSE vowels[i]]
    IN  IF \E i \in chosen : marked[i] = CharPanic THEN RenderPanic ELSE Rendered(marked)

\* add_diacritic_to_vowel_group; vowels.len() is the length in bytes.
add_diacritic_to_vowel_group(vowels, t) ==
    IF ByteLen(vowels) = 1 THEN MarkAt(vowels, t, {1})
    ELSE IF \E i \in 1..Len(vowels) : vowels[i] \in {"a", "e"}
         THEN MarkAt(vowels, t, {i \in 1..Len(vowels) : vowels[i] \in {"a", "e"}})
    ELSE IF ContainsOu(vowels)
         THEN MarkAt(vowels, t, {i \in 1..Len(vowels) : vowels[i] = "o"})
    ELSE MarkAt(vowels, t, {2} \cap (1..Len(vowels)))

\* The byte offset at which character k of s ends (0 for k = 0).
ByteOffset(s, k) == ByteLen(SubSeq(s, 1, k))

\* &s[a..b] with a and b byte indexes: the characters between them, or a panic
\* when a > b, b is past the end, or either is inside a character.
ByteSlice(s, a, b) ==
    LET boundaries == {ByteOffset(s, k) : k \in 0..Len(s)}
    IN  IF a > b \/ a \notin boundaries \/ b \notin boundaries THEN RenderPanic
        ELSE LET from == CHOOSE k \in 0..Len(s) : ByteOffset(s, k) = a
                 to == CHOOSE k \in 0..Len(s) : ByteOffset(s, k) = b
             IN  Rendered(SubSeq(s, from + 1, to))

VowelPositions(s) == {i \in 1..Len(s) : s[i] \in VOWELS}

MaxOf(S) == CHOOSE x \in S : \A y \in S : x >= y

\* The body of add_diacritic once a tone has to be added.  first_vowel_idx is a
\* position in characters, last_vowel_idx is text.len() (bytes) - 1 - a position
\* in characters from the end; both are then used as byte indexes.
AddTone(s, t) ==
    IF VowelPositions(s) = {} THEN RenderPanic
    ELSE LET first_vowel_idx == MinOf(VowelPositions(s)) - 1
             last_vowel_idx == ByteLen(s) - 1 - (Len(s) - MaxOf(VowelPositions(s)))
             before == ByteSlice(s, 0, first_vowel_idx)
             group == ByteSlice(s, first_vowel_idx, last_vowel_idx + 1)
             after == ByteSlice(s, last_vowel_idx + 1, ByteLen(s))
         IN  IF before.kind = "panic" \/ group.kind = "panic" \/ after.kind = "panic"
             THEN RenderPanic
             ELSE LET marked == add_diacritic_to_vowel_group(group.text, t)
                  IN  IF marked.kind = "panic" THEN RenderPanic
                      ELSE Rendered(before.text \o marked.text \o after.text)

\* Only None returns early.
add_diacritic_fifth(s, t) == IF t = 0 THEN Rendered(s) ELSE AddTone(s, t)

add_diacritic(s, t) == IF t \in {0, 5} THEN Rendered(s) ELSE AddTone(s, t)

(***************************************************************************)
(* SpecPinyin: add_diacritic applied to every bounded syllable text and    *)
(* every tone (0 is None).                                                 *)
(***************************************************************************)
Letters == VOWELS \cup {"n"}

\* The texts of test_diacritics, the interpunct, and syllables of uppercase names.
ExampleTexts ==
    {<<"c", "h", "u">>, <<"l", "i", "a", "n", "g">>, <<"X", "i">>, <<"E", "r">>,
     <<"s", "h", "u", "a", "n", "g">>, <<"middot">>, <<"l", "v">>, <<"n", "v", "e">>}

Texts == SeqsUpTo(Letters, MaxTextLen) \cup ExampleTexts

InitPinyin ==
    /\ pc = "render"
    /\ text \in Texts
    /\ tone \in 0..5
    /\ out = NotRendered
    /\ dict = <<>>
    /\ IdleGet /\ IdleParse

AddDiacritic ==
    /\ pc = "render"
    /\ out' = add_diacritic(text, tone)
    /\ pc' = "rendered"
    /\ UNCHANGED <<src, dict, word, chunkings, result, fields, line, parsed, text, tone>>

NextPinyin == AddDiacritic

SpecPinyin == InitPinyin /\ [][NextPinyin]_vars

(***************************************************************************)
(* Decompositions, stated by their cut points (independently of the        *)
(* recursion of iterate_all_subdivisions).                                 *)
(***************************************************************************)
\* The pieces of w cut after the positions in cutset, in order: walking along w,
\* the piece begun at start ends at i when i is a cut point or the end of w.
RECURSIVE CutWalk(_, _, _, _)
CutWalk(w, cutset, start, i) ==
    IF i > Len(w) THEN <<>>
    ELSE IF i = Len(w) THEN <<SubSeq(w, start, i)>>
    ELSE IF i \in cutset THEN <<SubSeq(w, start, i)>> \o CutWalk(w, cutset, i + 1, i + 1)
    ELSE CutWalk(w, cutset, start, i + 1)

DecompositionAt(w, cutset) == CutWalk(w, cutset, 1, 1)

\* Every decomposition of w into two or more non-empty contiguous pieces.
ProperDecompositions(w) ==
    {DecompositionAt(w, cutset) : cutset \in (SUBSET (1..(Len(w) - 1))) \ {{}}}

\* a comes before b when, at the first piece where they differ, a's is longer.
LongerFirst(a, b) ==
    \E k \in 1..Len(a) :
        /\ k <= Len(b)
        /\ Len(a[k]) > Len(b[k])
        /\ \A m \in 1..(k - 1) : Len(a[m]) = Len(b[m])

Covered(d, c) == \A k \in 1..Len(c) : c[k] \in DOMAIN d

Entries(d, c) == [k \in 1..Len(c) |-> d[c[k]]]

Pieces(r) == [k \in 1..Len(r.words) |-> r.words[k].simplified]

RECURSIVE Pow2(_)
Pow2(n) == IF n <= 0 THEN 1 ELSE 2 * Pow2(n - 1)

ExampleWord == <<"gong", "tong", "hua", "ti">>

GongTong == <<"gong", "tong">>

HuaTi == <<"hua", "ti">>

GongTongHua == <<"gong", "tong", "hua">>

Ti == <<"ti">>

(***************************************************************************)
(* C1: get returns exactly the entry keyed by the token when the token is  *)
(* a key; otherwise, when some chunking is fully covered, the entries, in  *)
(* piece order, of the first chunking in generate_all_chunkings order      *)
(* whose pieces are all keys, each piece looked up directly.               *)
(***************************************************************************)
C1_GetFirstCovered ==
    pc = "done" =>
        LET cs == generate_all_chunkings(word)
            hits == {i \in 1..Len(cs) : Covered(dict, cs[i])}
        IN  /\ word \in DOMAIN dict => result = Returned(<<dict[word]>>)
            /\ (word \notin DOMAIN dict /\ hits # {}) =>
                  \E i \in hits :
                      /\ \A j \in hits : i <= j
                      /\ result = Returned(Entries(dict, cs[i]))

\* A chunked lookup whose first covered chunking is not the first chunking tried.
C1_Witness ==
    /\ pc = "done"
    /\ word \notin DOMAIN dict
    /\ result.kind = "ok"
    /\ Len(result.words) >= 2
    /\ ~Covered(dict, generate_all_chunkings(word)[1])

\* A direct hit on a token that also has a fully covered chunking.
C1_WitnessDirect ==
    /\ pc = "done"
    /\ word \in DOMAIN dict
    /\ \E c \in ProperDecompositions(word) : Covered(dict, c)
    /\ result = Returned(<<dict[word]>>)

(***************************************************************************)
(* C2 as claimed: whenever 共同 and 话题 are keys and 共同话题 is not,       *)
(* get("共同话题") returns the entries of 共同 and 话题, whatever the      *)
(* other keys.                                                             *)
(***************************************************************************)
C2_Original ==
    (/\ pc = "done"
     /\ word = ExampleWord
     /\ GongTong \in DOMAIN dict
     /\ HuaTi \in DOMAIN dict
     /\ ExampleWord \notin DOMAIN dict)
    => result = Returned(<<dict[GongTong], dict[HuaTi]>>)

(***************************************************************************)
(* C2 amended: whenever 共同 and 话题 are keys, 共同话题 is not, and 共同话   *)
(* and 题 are not both keys, get("共同话题") returns exactly the entries   *)
(* of 共同 and 话题, in that order, whatever the other keys.               *)
(***************************************************************************)
C2_ChunkingResolution ==
    (/\ pc = "done"
     /\ word = ExampleWord
     /\ GongTong \in DOMAIN dict
     /\ HuaTi \in DOMAIN dict
     /\ ExampleWord \notin DOMAIN dict
     /\ ~(GongTongHua \in DOMAIN dict /\ Ti \in DOMAIN dict))
    => result = Returned(<<dict[GongTong], dict[HuaTi]>>)

\* The lookup resolved to 共同, 话题 in a store that holds other keys too.
C2_Witness ==
    /\ pc = "done"
    /\ word = ExampleWord
    /\ {GongTong, HuaTi, Ti, <<"gong">>} \subseteq DOMAIN dict
    /\ ExampleWord \notin DOMAIN dict
    /\ result = Returned(<<dict[GongTong], dict[HuaTi]>>)

(***************************************************************************)
(* C3: generate_all_chunkings returns every decomposition of the token     *)
(* into two or more non-empty contiguous pieces, each exactly once         *)
(* (2^(n-1)-1 of them, none for n <= 1), never the one-piece               *)
(* decomposition, ordered by first-piece length descending and then the    *)
(* same way on the remainder; for 共同话题 it is the list of test_chunking. *)
(***************************************************************************)
C3_ChunkingsExhaustiveOrdered ==
    pc = "chunked" =>
        LET n == Len(word)
        IN  /\ {chunkings[i] : i \in 1..Len(chunkings)} = ProperDecompositions(word)
            /\ Len(chunkings) = (IF n <= 1 THEN 0 ELSE Pow2(n - 1) - 1)
            /\ \A i, j \in 1..Len(chunkings) : i # j => chunkings[i] # chunkings[j]
            /\ \A i \in 1..Len(chunkings) :
                  /\ Len(chunkings[i]) >= 2
                  /\ Concat(chunkings[i]) = word
                  /\ \A k \in 1..Len(chunkings[i]) : chunkings[i][k] # <<>>
            /\ \A i, j \in 1..Len(chunkings) :
                  i < j => LongerFirst(chunkings[i], chunkings[j])
            /\ word = ExampleWord =>
                  chunkings = << <<GongTongHua, Ti>>,
                                 <<GongTong, HuaTi>>,
                                 <<GongTong, <<"hua">>, Ti>>,
                                 <<<<"gong">>, <<"tong", "hua", "ti">>>>,
                                 <<<<"gong">>, <<"tong", "hua">>, Ti>>,
                                 <<<<"gong">>, <<"tong">>, HuaTi>>,
                                 <<<<"gong">>, <<"tong">>, <<"hua">>, Ti>> >>

\* The chunkings of 共同话题 have been generated: seven of them.
C3_Witness ==
    /\ pc = "chunked"
    /\ word = ExampleWord
    /\ Len(chunkings) = 7

(***************************************************************************)
(* C4 as claimed: in the order get tries them, a decomposition using fewer *)
(* pieces always comes before any decomposition using more pieces, so the  *)
(* decomposition get resolves to has the minimum piece count among all     *)
(* fully covered decompositions.                                           *)
(***************************************************************************)
C4_Original ==
    pc = "done" =>
        LET cs == generate_all_chunkings(word)
        IN  /\ \A i, j \in 1..Len(cs) : Len(cs[i]) < Len(cs[j]) => i < j
            /\ (word \notin DOMAIN dict /\ result.kind = "ok") =>
                  \A c \in ProperDecompositions(word) :
                      Covered(dict, c) => Len(result.words) <= Len(c)

(***************************************************************************)
(* C4 amended: in the order get tries them, a decomposition whose piece is *)
(* longer at the first piece where two decompositions differ comes first,  *)
(* so the decomposition get resolves to is the fully covered one that is   *)
(* before every other fully covered one in that order (longest first       *)
(* piece, then longest second piece, ...); it has the minimum piece count  *)
(* for tokens of at most three characters, not in general.                 *)
(***************************************************************************)
C4_LongestPiecesFirst ==
    pc = "done" =>
        LET cs == generate_all_chunkings(word)
            all == ProperDecompositions(word)
        IN  \* LongerFirst is a lexicographic (so transitive) order: each chunking
            \* coming before its successor puts it before every later one.
            /\ \A i \in 1..(Len(cs) - 1) : LongerFirst(cs[i], cs[i + 1])
            /\ (word \notin DOMAIN dict /\ result.kind = "ok") =>
                  /\ Pieces(result) \in all
                  /\ Covered(dict, Pieces(result))
                  /\ \A c \in all :
                        (Covered(dict, c) /\ c # Pieces(result))
                            => LongerFirst(Pieces(result), c)
                  /\ Len(word) <= 3 =>
                        \A c \in all :
                            Covered(dict, c) => Len(result.words) <= Len(c)

\* get resolved to three pieces although a two-piece decomposition is covered.
C4_Witness ==
    /\ pc = "done"
    /\ word \notin DOMAIN dict
    /\ result.kind = "ok"
    /\ Len(result.words) = 3
    /\ \E c \in ProperDecompositions(word) : Covered(dict, c) /\ Len(c) = 2

(***************************************************************************)
(* C5: get ends in a fatal failure naming the token exactly when the token *)
(* is not a key and no decomposition of it into two or more pieces has     *)
(* every piece a key (so for the empty token and for a one-character token *)
(* that is not a key); otherwise it returns a non-empty sequence; it never *)
(* returns an empty sequence.                                              *)
(***************************************************************************)
C5_PanicIffUnresolvable ==
    pc = "done" =>
        LET unresolvable ==
                /\ word \notin DOMAIN dict
                /\ \A c \in ProperDecompositions(word) : ~Covered(dict, c)
        IN  /\ result.kind \in {"ok", "panic"}
            /\ unresolvable <=> result = Panicked(word)
            /\ ~unresolvable <=> (result.kind = "ok" /\ Len(result.words) >= 1)
            /\ (word = <<>> \/ (Len(word) = 1 /\ word \notin DOMAIN dict))
                  => result = Panicked(word)

\* A token of several characters, some of its pieces keys, that get fails on.
C5_Witness ==
    /\ pc = "done"
    /\ Len(word) >= 2
    /\ DOMAIN dict # {}
    /\ result = Panicked(word)

(***************************************************************************)
(* C6: for every well-formed dictionary line, parse_line yields an entry   *)
(* whose written form is the second whitespace-separated token before '[', *)
(* with exactly one reading whose syllables are the tokens inside the      *)
(* brackets in source order (text = all characters but the last with "u:"  *)
(* rewritten to 'ü', tone = the last digit; a bare '·' is a toneless       *)
(* syllable with text '·' at its position), and whose gloss set is exactly *)
(* the set of non-empty '/'-separated segments after the first.            *)
(***************************************************************************)
C6_ParseLine ==
    (pc = "parsed" /\ fields # NoFields) =>
        /\ parsed.kind = "ok"
        /\ parsed.word.simplified = fields.simp
        /\ DOMAIN parsed.word.pinyins = {ReadingOf(fields.syls)}
        /\ \A py \in DOMAIN parsed.word.pinyins :
              /\ Len(py) = Len(fields.syls)
              /\ parsed.word.pinyins[py] = GlossesOf(fields.segs)

\* A parsed line whose traditional and simplified forms differ, with '·' as its
\* second syllable after a "u:" syllable, and an empty segment between '/'.
C6_Witness ==
    /\ pc = "parsed"
    /\ fields # NoFields
    /\ fields.trad # fields.simp
    /\ fields.syls = <<<<"l", "u", ":", "4">>, <<"middot">>>>
    /\ fields.segs = <<<<>>, GlossN2O>>
    /\ parsed.kind = "ok"
    /\ \E py \in DOMAIN parsed.word.pinyins :
          /\ py[1] = [text |-> <<"l", "v">>, tone |-> 4]
          /\ py[2] = [text |-> <<"middot">>, tone |-> 0]
          /\ parsed.word.pinyins[py] = {GlossN2O}

(***************************************************************************)
(* C7: after parsing any sequence of lines, in any order, the store holds  *)
(* exactly one entry per distinct simplified written form of the           *)
(* non-comment lines; for every (written form, reading) pair the gloss set *)
(* is the union of the glosses of all lines with that written form and     *)
(* reading; different readings of one written form stay separate keys;     *)
(* lines starting with '#' contribute nothing.                             *)
(***************************************************************************)
C7_ParseMerges ==
    pc = "ready" =>
        LET entries == {i \in 1..Len(src) : \E f \in DictFields : RenderLine(f) = src[i]}
            written(i) == CHOOSE f \in DictFields : RenderLine(f) = src[i]
            forms == {written(i).simp : i \in entries}
        IN  /\ DOMAIN dict = forms
            /\ \A k \in DOMAIN dict :
                  LET same == {i \in entries : written(i).simp = k}
                  IN  /\ dict[k].simplified = k
                      /\ DOMAIN dict[k].pinyins = {ReadingOf(written(i).syls) : i \in same}
                      /\ \A py \in DOMAIN dict[k].pinyins :
                            dict[k].pinyins[py] =
                                UNION {GlossesOf(written(i).segs) :
                                          i \in {j \in same : ReadingOf(written(j).syls) = py}}

\* A source with a comment line and two lines of one written form and reading:
\* one entry, its gloss set the union of both.
C7_Witness ==
    /\ pc = "ready"
    /\ \E i \in 1..Len(src) : src[i] = CommentLine
    /\ DOMAIN dict = {<<"gong">>}
    /\ \E py \in DOMAIN dict[<<"gong">>].pinyins :
          dict[<<"gong">>].pinyins[py] = {GlossGas, GlossN2O}

\* Two readings of one written form kept apart, one of them with merged glosses.
C7_WitnessReadings ==
    /\ pc = "ready"
    /\ <<"gong">> \in DOMAIN dict
    /\ Cardinality(DOMAIN dict[<<"gong">>].pinyins) = 2
    /\ \E py \in DOMAIN dict[<<"gong">>].pinyins :
          dict[<<"gong">>].pinyins[py] = {GlossGas, GlossN2O}

(***************************************************************************)
(* Tone marks, stated by the naming of the characters: the mark of tone t  *)
(* on a vowel is the vowel followed by t.                                  *)
(***************************************************************************)
ToneDigit(t) == CASE t = 1 -> "1" [] t = 2 -> "2" [] t = 3 -> "3" [] OTHER -> "4"

MarkOf(v, t) == v \o ToneDigit(t)

(***************************************************************************)
(* C8: for every tone 1-4 and every text whose vowel span is a single      *)
(* vowel character (a, e, i, o, u, ü in either case), add_diacritic        *)
(* returns the text with that vowel replaced by its tone-marked variant of *)
(* the same case and every other character unchanged.                      *)
(***************************************************************************)
C8_SingleVowelMarked ==
    (/\ pc = "rendered"
     /\ tone \in 1..4
     /\ Cardinality(VowelPositions(text)) = 1)
    => LET i == MinOf(VowelPositions(text))
       IN  out = Rendered([text EXCEPT ![i] = MarkOf(text[i], tone)])

(***************************************************************************)
(* C9: for every tone 1-4 and every text whose vowel span has more than    *)
(* one character and contains the letter a or e in either case,            *)
(* add_diacritic places the tone mark on that a/e, preserving its case,    *)
(* and leaves every other character unchanged.                             *)
(***************************************************************************)
C9_MarkOnAOrE ==
    LET span == IF VowelPositions(text) = {} THEN {}
                ELSE MinOf(VowelPositions(text))..MaxOf(VowelPositions(text))
        ae == {i \in span : text[i] \in {"a", "e", "A", "E"}}
    IN  (/\ pc = "rendered"
         /\ tone \in 1..4
         /\ Cardinality(span) > 1
         /\ Cardinality(ae) = 1)
        => LET i == MinOf(ae)
           IN  out = Rendered([text EXCEPT ![i] = MarkOf(text[i], tone)])

(***************************************************************************)
(* C10: for every text, also one with no vowel at all, add_diacritic with  *)
(* no tone or with the neutral (fifth) tone returns the text unchanged,    *)
(* character for character, and never fails.                               *)
(***************************************************************************)
C10_NeutralPassthrough ==
    (pc = "rendered" /\ tone \in {0, 5}) => out = Rendered(text)

\* A text without any vowel rendered with the fifth tone.
C10_Witness ==
    /\ pc = "rendered"
    /\ tone = 5
    /\ text # <<>>
    /\ VowelPositions(text) = {}
    /\ out = Rendered(text)

(***************************************************************************)
(* anki.rs: colourise, to_colour_hanzi.  In the output string the pieces   *)
(* of markup are single items: "<span class=tone" is the text              *)
(* <span class="tone, ">" is the text "> and "</span>" closes the span.    *)
(***************************************************************************)
MaxWrittenLen == 2
MaxReadingLen == 2

\* usize::from(Tone), as format! prints it.
ToneClass(t) ==
    CASE t = 1 -> "1" [] t = 2 -> "2" [] t = 3 -> "3" [] t = 4 -> "4" [] OTHER -> "5"

colourise(token, t) ==
    IF t = 0 THEN token
    ELSE <<"<span class=tone", ToneClass(t), ">">> \o token \o <<"</span>">>

\* py.0.iter().map(|pys| pys.tone).collect::<Vec<_>>()
TonesOf(py) == [i \in 1..Len(py) |-> py[i].tone]

\* Iterator::zip stops at the end of the shorter side.
Zip(cs, ts) == [i \in 1..MinOf({Len(cs), Len(ts)}) |-> <<cs[i], ts[i]>>]

\* The branch taken whatever the number of tone sequences: zip with one of them.
to_colour_hanzi_zip(w) ==
    LET tones_consensus == {TonesOf(py) : py \in DOMAIN w.pinyins}
        zipped == Zip(w.simplified, CHOOSE ts \in tones_consensus : TRUE)
    IN  Concat([i \in 1..Len(zipped) |-> colourise(<<zipped[i][1]>>, zipped[i][2])])

to_colour_hanzi(w) ==
    LET tones_consensus == {TonesOf(py) : py \in DOMAIN w.pinyins}
    IN  IF Cardinality(tones_consensus) = 1
        THEN LET zipped == Zip(w.simplified, CHOOSE ts \in tones_consensus : TRUE)
             IN  Concat([i \in 1..Len(zipped) |->
                            colourise(<<zipped[i][1]>>, zipped[i][2])])
        ELSE Concat([i \in 1..Len(w.simplified) |-> colourise(<<w.simplified[i]>>, 5)])

(***************************************************************************)
(* SpecColour: to_colour_hanzi over entries with one or two readings.      *)
(***************************************************************************)
\* No tone (an interpunct or a syllable without a tone digit), two marked
\* tones and the neutral tone.
ColourTones == {0, 1, 3, 5}

WrittenForms == {t \in SeqsUpTo(HanziSet, MaxWrittenLen) : t # <<>> /\ IsCanonical(t)}

\* A reading: its tones, and one text for all of its syllables (to_colour_hanzi
\* never looks at the text; two texts let two readings share their tones).
ColourReadings ==
    {[i \in 1..Len(ts) |-> [text |-> tx, tone |-> ts[i]]] :
        ts \in SeqsUpTo(ColourTones, MaxReadingLen), tx \in {<<"a">>, <<"b">>}}

ColourWords ==
    {[simplified |-> k, pinyins |-> [py \in {r1, r2} |-> {<<"g">>}]] :
        k \in WrittenForms, r1 \in ColourReadings, r2 \in ColourReadings}

InitColour ==
    /\ pc = "colour"
    /\ \E w \in ColourWords : parsed = Parsed(w)
    /\ out = NotRendered
    /\ dict = <<>>
    /\ src = <<>> /\ fields = NoFields /\ line = <<>>
    /\ text = <<>> /\ tone = 0
    /\ IdleGet

ToColourHanzi ==
    /\ pc = "colour"
    /\ out' = Rendered(to_colour_hanzi(parsed.word))
    /\ pc' = "coloured"
    /\ UNCHANGED <<src, dict, word, chunkings, result, fields, line, parsed, text, tone>>

NextColour == ToColourHanzi

SpecColour == InitColour /\ [][NextColour]_vars

(***************************************************************************)
(* Statement side of the colourisation claims.                             *)
(***************************************************************************)
ToneSequences(w) == {[i \in 1..Len(py) |-> py[i].tone] : py \in DOMAIN w.pinyins}

\* One character in the class of tone t; no tone, no class.
Span(c, t) ==
    IF t = 0 THEN <<c>> ELSE <<"<span class=tone", ToneClass(t), ">", c, "</span>">>

IsWritten(c) == c \in HanziSet

(***************************************************************************)
(* C11: for every entry whose readings all have the same tone sequence,    *)
(* to_colour_hanzi emits every character of the written form, in order,    *)
(* the i-th character in the class of the i-th tone of that sequence.      *)
(***************************************************************************)
C11_ConsensusColours ==
    (pc = "coloured" /\ Cardinality(ToneSequences(parsed.word)) = 1)
        => LET w == parsed.word
               ts == CHOOSE s \in ToneSequences(w) : TRUE
           IN  /\ out.kind = "ok"
               /\ SelectSeq(out.text, IsWritten) = w.simplified
               /\ Len(ts) >= Len(w.simplified)
                      => out.text = Concat([i \in 1..Len(w.simplified) |->
                                               Span(w.simplified[i], ts[i])])

C12_WitnessLength ==
    /\ pc = "coloured"
    /\ parsed.word.simplified = <<"gong", "tong">>
    /\ ToneSequences(parsed.word) = {<<1>>, <<1, 3>>}
    /\ out.text = <<"<span class=tone", "5", ">", "gong", "</span>",
                    "<span class=tone", "5", ">", "tong", "</span>">>

(***************************************************************************)
(* SpecSyllable: PinYinSyllable::from over bounded syllable tokens.  The   *)
(* token is held in text and the syllable (or the panic) in out.           *)
(***************************************************************************)
\* Letters, the "u:" spelling of 'ü', digits inside and outside 1..5, and
\* characters of two and three bytes.
SyllableChars == {"l", "u", ":", "0", "1", "5", "6", "v", "middot", "gong"}

\* split_whitespace never yields an empty token.
SyllableTokens == SeqsUpTo(SyllableChars, MaxTextLen) \ {<<>>}

InitSyllable ==
    /\ pc = "syllable"
    /\ text \in SyllableTokens
    /\ tone = 0
    /\ out = NotRendered
    /\ dict = <<>>
    /\ IdleGet /\ IdleParse

ParseSyllable ==
    /\ pc = "syllable"
    /\ out' = PinYinSyllable_from(text)
    /\ pc' = "syllabled"
    /\ UNCHANGED <<src, dict, word, chunkings, result, fields, line, parsed, text, tone>>

NextSyllable == ParseSyllable

SpecSyllable == InitSyllable /\ [][NextSyllable]_vars

(***************************************************************************)
(* C13: for every syllable token other than the bare interpunct, if its    *)
(* last character is not one of the digits 1-5 then parsing it yields a    *)
(* syllable with no tone whose text is all characters but the last (with   *)
(* "u:" written as 'ü'), and does not fail.                                *)
(***************************************************************************)
C13_NoToneFallback ==
    (/\ pc = "syllabled"
     /\ text # <<"middot">>
     /\ text[Len(text)] \notin {"1", "2", "3", "4", "5"})
        => /\ out.kind = "ok"
           /\ out.tone = 0
           /\ out.text = Replace(SubSeq(text, 1, Len(text) - 1), <<"u", ":">>, <<"v">>)

(***************************************************************************)
(* C13 (amended): for every syllable token other than the bare interpunct, *)
(* a last character of one byte that is not a digit gives a syllable with  *)
(* no tone whose text is all characters but the last (with "u:" written as *)
(* 'ü'); a last character that is a digit outside 1-5, or that takes more  *)
(* than one byte, makes the parse fail.                                    *)
(***************************************************************************)
C13_NoToneOrFail ==
    (pc = "syllabled" /\ text # <<"middot">>)
        => LET last == text[Len(text)]
           IN  /\ (Utf8Len(last) = 1 /\ last \notin Digits)
                      => out = Syllable(Replace(SubSeq(text, 1, Len(text) - 1),
                                                <<"u", ":">>, <<"v">>), 0)
               /\ (last \in Digits /\ DigitValue(last) \notin 1..5) => out.kind = "panic"
               /\ Utf8Len(last) > 1 => out.kind = "panic"

\* The token "u:l": no tone digit, text 'ü'.
C13_Witness ==
    /\ pc = "syllabled"
    /\ text = <<"u", ":", "l">>
    /\ out = Syllable(<<"v">>, 0)

\* The token "l0": the digit 0 is not a tone.
C13_WitnessDigit ==
    /\ pc = "syllabled"
    /\ text = <<"l", "0">>
    /\ out.kind = "panic"

(***************************************************************************)
(* C14: after construction, every get call (a direct hit, a chunked        *)
(* resolution or a failing lookup) leaves the store as it was: no entry,   *)
(* reading or gloss is added, removed or modified.                         *)
(***************************************************************************)
C14_GetLeavesStore == [][pc = "ready" => dict' = dict]_vars

\* After a chunked resolution (gong tong looked up in a store without that
\* key) the store is still the one parse built.
C14_Witness ==
    /\ pc = "ready"
    /\ word = <<"gong", "tong">>
    /\ word \notin DOMAIN dict
    /\ result.kind = "ok"
    /\ Len(result.words) = 2
    /\ dict = parse(src).dict

\* After a failing lookup.
C14_WitnessFailing ==
    /\ pc = "ready"
    /\ result.kind = "panic"
    /\ dict # <<>>
    /\ dict = parse(src).dict

(***************************************************************************)
(* C15: in every store built by parse each key is the written form         *)
(* (simplified) of the entry it maps to, and for every token for which get *)
(* returns, the written forms of the returned entries, concatenated in     *)
(* order, give back exactly the token.                                     *)
(***************************************************************************)
C15_PiecesSpellToken ==
    pc = "ready"
        => /\ \A k \in DOMAIN dict : dict[k].simplified = k
           /\ result.kind = "ok" => Concat(Pieces(result)) = word

\* A chunked resolution: gong tong is no key, its two characters are.
C15_Witness ==
    /\ pc = "ready"
    /\ word = <<"gong", "tong">>
    /\ DOMAIN dict = {<<"gong">>, <<"tong">>}
    /\ result.kind = "ok"
    /\ Pieces(result) = <<<<"gong">>, <<"tong">>>>

\* A direct hit on a two-character key.
C15_WitnessDirect ==
    /\ pc = "ready"
    /\ word = <<"gong", "tong">>
    /\ word \in DOMAIN dict
    /\ Pieces(result) = <<word>>

====
